---- MODULE Spec2Model ----
(***************************************************************************)
(* A model of Orbit Sim (src/Orbit Sim/OrbitSim.py): the camera transform, *)
(* the anchored zoom and drag pan, the gravitational integrator with its   *)
(* bounded trail, and the main loop with its pause flag.                   *)
(*                                                                         *)
(* Python floats are IEEE-754 binary floating point numbers with a 53 bit  *)
(* significand, rounded to nearest, ties to even.  The model keeps that    *)
(* arithmetic and shortens the significand to MantBits bits: a number is   *)
(* a pair <<m, e>> that stands for m * 2^e, with m = 0 and e = 0 for zero  *)
(* and 2^(MantBits-1) <= |m| < 2^MantBits otherwise.  Every operation      *)
(* computes the exact result and rounds it once, as the hardware does.     *)
(* The exponent is not bounded: no value of the program comes near the     *)
(* overflow or underflow threshold of a double within the modelled runs.   *)
(***************************************************************************)
EXTENDS Integers, Sequences, FiniteSets, TLC

\* Width of the significand of a model float (53 in the program).
MantBits == 11

----------------------------------------------------------------------------
(* Evaluation order *)

\* F(v), with v evaluated once before F is applied: the assignment
\* "x = v" followed by the code that uses x.
Bind(v, F(_)) == CHOOSE r \in {F(x) : x \in {v}} : TRUE

\* F(v, w), with v and w evaluated once before F is applied.
Bind2(v, w, F(_, _)) == CHOOSE r \in {F(p[1], p[2]) : p \in {<<v, w>>}} : TRUE

----------------------------------------------------------------------------
(* Floating point arithmetic *)

Abs(n) == IF n < 0 THEN -n ELSE n

Sgn(n) == IF n < 0 THEN -1 ELSE IF n = 0 THEN 0 ELSE 1

Pow2(n) == IF n <= 0 THEN 1 ELSE 2 ^ n

\* Number of bits of n for 0 <= n < 2^31.
BitLen(n) ==
  IF n < 32768
  THEN IF n < 128
       THEN IF n < 8
            THEN IF n < 2
                 THEN IF n < 1
                      THEN 0
                      ELSE 1
                 ELSE IF n < 4
                      THEN 2
                      ELSE 3
            ELSE IF n < 32
                 THEN IF n < 16
                      THEN 4
                      ELSE 5
                 ELSE IF n < 64
                      THEN 6
                      ELSE 7
       ELSE IF n < 2048
            THEN IF n < 512
                 THEN IF n < 256
                      THEN 8
                      ELSE 9
                 ELSE IF n < 1024
                      THEN 10
                      ELSE 11
            ELSE IF n < 8192
                 THEN IF n < 4096
                      THEN 12
                      ELSE 13
                 ELSE IF n < 16384
                      THEN 14
                      ELSE 15
  ELSE IF n < 8388608
       THEN IF n < 524288
            THEN IF n < 131072
                 THEN IF n < 65536
                      THEN 16
                      ELSE 17
                 ELSE IF n < 262144
                      THEN 18
                      ELSE 19
            ELSE IF n < 2097152
                 THEN IF n < 1048576
                      THEN 20
                      ELSE 21
                 ELSE IF n < 4194304
                      THEN 22
                      ELSE 23
       ELSE IF n < 134217728
            THEN IF n < 33554432
                 THEN IF n < 16777216
                      THEN 24
                      ELSE 25
                 ELSE IF n < 67108864
                      THEN 26
                      ELSE 27
            ELSE IF n < 536870912
                 THEN IF n < 268435456
                      THEN 28
                      ELSE 29
                 ELSE IF n < 1073741824
                      THEN 30
                      ELSE 31

Zero == <<0, 0>>

\* The pairs <<m, e>>.
Float == Int \X Int

\* s * q * 2^e, renormalised when rounding up carried into a new bit.
RoundCarry[s \in Int, q \in Int, e \in Int] ==
  IF q = Pow2(MantBits) THEN <<s * Pow2(MantBits - 1), e + 1>>
                        ELSE <<s * q, e>>

\* s * (q + r/(2h)) * 2^e rounded to an integer multiple of 2^e, ties to even.
RoundTo[s \in Int, q \in Int, r \in Int, h \in Int, e \in Int] ==
  RoundCarry[s, IF r > h \/ (r = h /\ q % 2 = 1) THEN q + 1 ELSE q, e]

\* m * 2^e with the k low bits of m rounded away (k <= 0: none is).
RoundBits[m \in Int, e \in Int, k \in Int] ==
  IF k <= 0
  THEN <<m * Pow2(-k), e + k>>
  ELSE RoundTo[Sgn(m), Abs(m) \div Pow2(k), Abs(m) % Pow2(k), Pow2(k - 1),
               e + k]

\* The float nearest to m * 2^e (ties to even).
Round[m \in Int, e \in Int] ==
  IF m = 0 THEN Zero ELSE RoundBits[m, e, BitLen(Abs(m)) - MantBits]

Norm(m, e) == Round[m, e]

\* float(n) of an integer n.
FromInt(n) == Round[n, 0]

Fneg(a) == [x \in Float |-> <<-x[1], x[2]>>][a]

Fabs(a) == [x \in Float |-> <<Abs(x[1]), x[2]>>][a]

\* hi + lo for hi[2] - lo[2] = d >= 0: the exact sum when the exponents are
\* close, otherwise hi with lo kept as a sticky bit below the rounding
\* position.
Aligned[hi \in Float, lo \in Float, d \in Int] ==
  IF d <= MantBits + 2
  THEN Round[hi[1] * Pow2(d) + lo[1], lo[2]]
  ELSE Round[hi[1] * Pow2(MantBits + 2) + Sgn(lo[1]), hi[2] - (MantBits + 2)]

\* x + y
Sum[x \in Float, y \in Float] ==
  IF x[1] = 0 THEN y
  ELSE IF y[1] = 0 THEN x
  ELSE IF x[2] >= y[2] THEN Aligned[x, y, x[2] - y[2]]
                       ELSE Aligned[y, x, y[2] - x[2]]

Fadd(a, b) == Sum[a, b]

Fsub(a, b) == Sum[a, Fneg(b)]

\* x * y
Product[x \in Float, y \in Float] == Round[x[1] * y[1], x[2] + y[2]]

Fmul(a, b) == Product[a, b]

\* s * q * 2^e rounded, q being a quotient cut off with remainder rem.
Sticky[s \in Int, q \in Int, rem \in Int, e \in Int] ==
  Round[s * (IF rem # 0 /\ q % 2 = 0 THEN q + 1 ELSE q), e]

\* x / y for y # 0: the quotient to MantBits + 2 bits and a sticky bit.
Quotient[x \in Float, y \in Float] ==
  IF x[1] = 0 THEN Zero
  ELSE Sticky[Sgn(x[1]) * Sgn(y[1]),
              (Abs(x[1]) * Pow2(MantBits + 2)) \div Abs(y[1]),
              (Abs(x[1]) * Pow2(MantBits + 2)) % Abs(y[1]),
              x[2] - y[2] - (MantBits + 2)]

Fdiv(a, b) == Quotient[a, b]

\* The largest r in lo..hi with r * r <= n; mid is the middle of lo..hi.
IsqrtIn[n \in Int, lo \in Int, hi \in Int, mid \in Int] ==
  IF lo >= hi THEN lo
  ELSE IF mid * mid <= n THEN IsqrtIn[n, mid, hi, (mid + hi + 1) \div 2]
                         ELSE IsqrtIn[n, lo, mid - 1, (lo + mid) \div 2]

\* sqrt(n * 2^e) rounded, for n > 0 and e even; r the integer root of n.
RoundRoot[n \in Int, e \in Int, r \in Int] ==
  Round[IF r * r # n /\ r % 2 = 0 THEN r + 1 ELSE r, e \div 2]

\* sqrt(x) for x > 0, computed from x[1] * 2^t.
RootShift[x \in Float, t \in Int] ==
  RoundRoot[x[1] * Pow2(t), x[2] - t,
            IsqrtIn[x[1] * Pow2(t), 0, Pow2(MantBits + 3),
                    Pow2(MantBits + 2)]]

\* sqrt(x) for x >= 0.
Root[x \in Float] ==
  IF x[1] = 0 THEN Zero
  ELSE RootShift[x, IF (x[2] - (MantBits + 5)) % 2 = 0 THEN MantBits + 5
                                                        ELSE MantBits + 6]

Fsqrt(a) == Root[a]

\* a < b, exactly.
Flt(a, b) == Fsub(a, b)[1] < 0

Fle(a, b) == Fsub(b, a)[1] >= 0

RECURSIVE Pow10(_)
\* 10.0 ** n for n >= 0.
Pow10(n) == IF n <= 0 THEN FromInt(1) ELSE Fmul(Pow10(n - 1), FromInt(10))

\* The decimal literal n e k (n * 10^k).
Dec(n, k) == IF k >= 0 THEN Fmul(FromInt(n), Pow10(k))
                       ELSE Fdiv(FromInt(n), Pow10(-k))

----------------------------------------------------------------------------
(* Constants of the program *)

WIDTH == 1000

HEIGHT == 1000

\* Astronomical unit in metres: 149597870.7 * 1000.
AU == Fmul(Dec(1495978707, -1), FromInt(1000))

\* Gravitational constant 6.67430e-11.
G == Dec(667430, -16)

\* Initial scale, 100 pixels per AU.
SCALE_FACTOR == Fdiv(FromInt(100), AU)

\* 3600 * 24 seconds.
TIMESTEP == FromInt(3600 * 24)

\* Length the orbit trail is cut back to.
TRAIL_CAP == 1000

\* The zoom factor of one wheel event: 1.1 for button 4, 1/1.1 otherwise.
ZoomFactor(button) ==
  IF button = 4 THEN Dec(11, -1) ELSE Fdiv(FromInt(1), Dec(11, -1))

----------------------------------------------------------------------------
(* Bounds of the model *)

\* Input events handled in one run.
MaxEvents == 3

\* Integration passes (frames that are not paused) in one run.
MaxSteps == 2

\* Integration passes in a run that fills the trail.
TrailSteps == 1002

\* Bodies built by the construction harness.
MaxBuilt == 2

\* Cursor positions of mouse events (pixels).
Positions == {<<600, 500>>, <<1000, 250>>}

\* Screen points the transforms are evaluated at.
ScreenPoints == {<<0, 0>>, <<600, 500>>, <<878, 123>>, <<1000, 250>>}

VARIABLES
  camera,    \* the Camera object
  planets,   \* the list of Planet objects
  paused,    \* main's paused flag
  running,   \* main's running flag
  pc,        \* where main is: "input", "update", "done", "crashed", "build"
  idx,       \* index of the planet the update loop is at (0 outside of it)
  ev,        \* the event handled last
  nevents,   \* number of input events handled so far
  steps,     \* number of integration passes started so far
  total,     \* total_fx, total_fy at the end of the last update_position
  snapshot,  \* positions of all bodies when the current pass started
  grab,      \* world point under the cursor at the last left button down
  hist       \* per body, every position it was integrated to, in order

vars == <<camera, planets, paused, running, pc, idx, ev, nevents, steps,
          total, snapshot, grab, hist>>

----------------------------------------------------------------------------
(* Camera *)

\* Camera.__init__
Camera ==
  [offset_x |-> FromInt(0), offset_y |-> FromInt(0), scale |-> SCALE_FACTOR,
   dragging |-> FALSE,
   mouse_start |-> <<FromInt(0), FromInt(0)>>,
   offset_start |-> <<FromInt(0), FromInt(0)>>]

\* x * scale + WIDTH/2 - offset_x, and the same for y.
world_to_screen(cam, x, y) ==
  <<Fsub(Fadd(Fmul(x, cam.scale), Fdiv(FromInt(WIDTH), FromInt(2))),
         cam.offset_x),
    Fsub(Fadd(Fmul(y, cam.scale), Fdiv(FromInt(HEIGHT), FromInt(2))),
         cam.offset_y)>>

\* As screen_to_world, but with the offset subtracted.
screen_to_world_minus_offset(cam, x, y) ==
  <<Fdiv(Fsub(Fsub(x, cam.offset_x), Fdiv(FromInt(WIDTH), FromInt(2))),
         cam.scale),
    Fdiv(Fsub(Fsub(y, cam.offset_y), Fdiv(FromInt(HEIGHT), FromInt(2))),
         cam.scale)>>

\* (x + offset_x - WIDTH/2) / scale, and the same for y.
screen_to_world(cam, x, y) ==
  <<Fdiv(Fsub(Fadd(x, cam.offset_x), Fdiv(FromInt(WIDTH), FromInt(2))),
         cam.scale),
    Fdiv(Fsub(Fadd(y, cam.offset_y), Fdiv(FromInt(HEIGHT), FromInt(2))),
         cam.scale)>>

\* The camera after handle_zoom(event, camera); pos is event.pos as floats.
handle_zoom(cam, button, pos) ==
  Bind(screen_to_world(cam, pos[1], pos[2]), LAMBDA world :
    Bind([cam EXCEPT !.scale = Fmul(cam.scale, ZoomFactor(button))],
         LAMBDA zoomed :
           Bind(world_to_screen(zoomed, world[1], world[2]),
                LAMBDA new_screen :
                  [zoomed EXCEPT
                     !.offset_x = Fadd(@, Fsub(pos[1], new_screen[1])),
                     !.offset_y = Fadd(@, Fsub(pos[2], new_screen[2]))])))

\* The camera after handle_pan(event, camera).
handle_pan(cam, pos) ==
  LET dx == Fsub(pos[1], cam.mouse_start[1])
      dy == Fsub(pos[2], cam.mouse_start[2])
  IN  [cam EXCEPT !.offset_x = Fsub(cam.offset_start[1], dx),
                  !.offset_y = Fsub(cam.offset_start[2], dy)]

----------------------------------------------------------------------------
(* Planet *)

\* Planet.__init__: every argument is stored as given, nothing is checked.
Planet(name, x, y, radius, color, mass) ==
  [name |-> name, x |-> x, y |-> y, base_radius |-> radius, color |-> color,
   mass |-> mass, orbit |-> <<>>, sun |-> FALSE, distance_to_sun |-> Zero,
   x_vel |-> Zero, y_vel |-> Zero]

set_velocity(p, x_vel, y_vel) == [p EXCEPT !.x_vel = x_vel, !.y_vel = y_vel]

\* math.hypot(dx, dy)
hypot(dx, dy) == Fsqrt(Fadd(Fmul(dx, dx), Fmul(dy, dy)))

\* self.attraction(other): the force <<fx, fy>> on self and the distance
\* (near is FALSE when the early return for distance == 0 is taken).
\* cos(atan2(dy, dx)) and sin(atan2(dy, dx)) are dx/distance and dy/distance,
\* each rounded once.
attraction(self, other) ==
  Bind2(Fsub(other.x, self.x), Fsub(other.y, self.y), LAMBDA dx, dy :
    Bind(hypot(dx, dy), LAMBDA distance :
      IF distance = Zero
      THEN [fx |-> Zero, fy |-> Zero, distance |-> distance, near |-> FALSE]
      ELSE Bind(Fdiv(Fmul(Fmul(G, self.mass), other.mass),
                     Fmul(distance, distance)),
                LAMBDA force :
                  [fx |-> Fmul(Fdiv(dx, distance), force),
                   fy |-> Fmul(Fdiv(dy, distance), force),
                   distance |-> distance, near |-> TRUE])))

RECURSIVE accumulate(_, _, _, _)
\* The loop of update_position over planets[k..]: acc holds total_fx,
\* total_fy and self.distance_to_sun so far.
accumulate(ps, i, k, acc) ==
  IF k > Len(ps) THEN acc
  ELSE IF k = i THEN accumulate(ps, i, k + 1, acc)
  ELSE Bind(attraction(ps[i], ps[k]), LAMBDA a :
         Bind([fx |-> Fadd(acc.fx, a.fx), fy |-> Fadd(acc.fy, a.fy),
               distance_to_sun |-> IF a.near /\ ps[k].sun THEN a.distance
                                   ELSE acc.distance_to_sun],
              LAMBDA next : accumulate(ps, i, k + 1, next)))

\* As append_orbit, but nothing is ever removed.
append_orbit_unbounded(orbit, point) == Append(orbit, point)

\* The trail after appending a point.
append_orbit(orbit, point) ==
  Bind(Append(orbit, point), LAMBDA o :
    IF Len(o) > TRAIL_CAP THEN Tail(o) ELSE o)

\* The velocity after "self.x_vel += total_fx / self.mass * TIMESTEP" and
\* the same for y.
new_velocity(self, acc) ==
  <<Fadd(self.x_vel, Fmul(Fdiv(acc.fx, self.mass), TIMESTEP)),
    Fadd(self.y_vel, Fmul(Fdiv(acc.fy, self.mass), TIMESTEP))>>

\* As new_position, but from the velocity the body had before the call.
new_position_old_velocity(self, vel) ==
  <<Fadd(self.x, Fmul(self.x_vel, TIMESTEP)),
    Fadd(self.y, Fmul(self.y_vel, TIMESTEP))>>

\* The position after "self.x += self.x_vel * TIMESTEP" and the same for y;
\* vel is the velocity just assigned.
new_position(self, vel) ==
  <<Fadd(self.x, Fmul(vel[1], TIMESTEP)),
    Fadd(self.y, Fmul(vel[2], TIMESTEP))>>

\* update_position past the anchor test: the list afterwards, the totals,
\* whether the body moved and whether the division by self.mass raised
\* ZeroDivisionError.
integrate(ps, i) ==
  Bind(accumulate(ps, i, 1, [fx |-> Zero, fy |-> Zero,
                             distance_to_sun |-> ps[i].distance_to_sun]),
       LAMBDA acc :
         IF ps[i].mass = Zero
         THEN [planets |-> [ps EXCEPT ![i].distance_to_sun =
                                         acc.distance_to_sun],
               raised |-> TRUE, moved |-> FALSE, total |-> <<acc.fx, acc.fy>>]
         ELSE Bind(new_velocity(ps[i], acc), LAMBDA vel :
                Bind(new_position(ps[i], vel), LAMBDA at :
                  [planets |->
                     [ps EXCEPT ![i] =
                        [@ EXCEPT !.distance_to_sun = acc.distance_to_sun,
                                  !.x_vel = vel[1], !.y_vel = vel[2],
                                  !.x = at[1], !.y = at[2],
                                  !.orbit = append_orbit(@, at)]],
                   raised |-> FALSE, moved |-> TRUE,
                   total |-> <<acc.fx, acc.fy>>])))

\* As update_position, but the anchor is integrated like any other body.
update_position_unanchored(ps, i) == integrate(ps, i)

\* planets[i].update_position(planets)
update_position(ps, i) ==
  IF ps[i].sun
  THEN [planets |-> ps, raised |-> FALSE, moved |-> FALSE,
        total |-> <<Zero, Zero>>]
  ELSE integrate(ps, i)

\* create_planets()
create_planets ==
  LET sun == [Planet("Sun", FromInt(0), FromInt(0), 16, <<255, 255, 0>>,
                     Dec(198892, 25)) EXCEPT !.sun = TRUE]
  IN  << sun,
         set_velocity(Planet("Mercury", Fmul(Dec(-39, -2), AU), FromInt(0), 4,
                             <<169, 169, 169>>, Dec(3285, 20)),
                      FromInt(0), Dec(4787, 1)),
         set_velocity(Planet("Venus", Fmul(Dec(-723, -3), AU), FromInt(0), 6,
                             <<205, 200, 149>>, Dec(48675, 20)),
                      FromInt(0), Dec(3502, 1)),
         set_velocity(Planet("Earth", Fmul(FromInt(-1), AU), FromInt(0), 6,
                             <<70, 130, 180>>, Dec(597219, 19)),
                      FromInt(0), Dec(29783, 0)),
         set_velocity(Planet("Mars", Fmul(Dec(-1524, -3), AU), FromInt(0), 4,
                             <<188, 39, 50>>, Dec(64171, 19)),
                      FromInt(0), Dec(24077, 0)),
         set_velocity(Planet("Jupiter", Fmul(Dec(-5203, -3), AU), FromInt(0),
                             12, <<238, 232, 170>>, Dec(1898, 24)),
                      FromInt(0), Dec(1307, 1)),
         set_velocity(Planet("Saturn", Fmul(Dec(-9537, -3), AU), FromInt(0),
                             10, <<210, 180, 140>>, Dec(5683, 23)),
                      FromInt(0), Dec(969, 1)),
         set_velocity(Planet("Uranus", Fmul(Dec(-19191, -3), AU), FromInt(0),
                             8, <<135, 206, 235>>, Dec(8681, 22)),
                      FromInt(0), Dec(681, 1)),
         set_velocity(Planet("Neptune", Fmul(Dec(-30069, -3), AU), FromInt(0),
                             8, <<30, 144, 255>>, Dec(1024, 23)),
                      FromInt(0), Dec(543, 1)) >>

\* The positions of all bodies.
positions(ps) == [k \in 1..Len(ps) |-> <<ps[k].x, ps[k].y>>]

----------------------------------------------------------------------------
(* main and handle_input *)

\* event.pos as a pair of floats.
FPos(pos) == <<FromInt(pos[1]), FromInt(pos[2])>>

NoEvent == [type |-> "NONE", button |-> 0, key |-> "", pos |-> <<0, 0>>]

\* State of main when the loop is entered: camera = Camera(),
\* planets = create_planets(), paused = False, running = True.
Init ==
  /\ camera = Camera
  /\ planets = create_planets
  /\ paused = FALSE
  /\ running = TRUE
  /\ pc = "input"
  /\ idx = 0
  /\ ev = NoEvent
  /\ nevents = 0
  /\ steps = 0
  /\ total = <<Zero, Zero>>
  /\ snapshot = positions(create_planets)
  /\ grab = <<Zero, Zero>>
  /\ hist = [k \in 1..Len(create_planets) |-> <<>>]

\* As AfterInput, but the update loop starts whether paused or not.
AfterInput_ignoring_paused(run, max) ==
  /\ running' = run
  /\ steps < max
  /\ pc' = "update"
  /\ idx' = 1
  /\ steps' = steps + 1
  /\ snapshot' = positions(planets)

\* What main does once handle_input has returned (run, paused): the update
\* loop starts unless paused; otherwise the frame is drawn and the loop
\* condition is tested.  At most max integration passes are explored.
AfterInput(run, max) ==
  /\ running' = run
  /\ IF paused
     THEN /\ pc' = IF run THEN "input" ELSE "done"
          /\ UNCHANGED <<idx, steps, snapshot>>
     ELSE /\ steps < max
          /\ pc' = "update"
          /\ idx' = 1
          /\ steps' = steps + 1
          /\ snapshot' = positions(planets)

\* One iteration of the event loop of handle_input consumes event e.
Handled(e) ==
  /\ pc = "input"
  /\ nevents < MaxEvents
  /\ ev' = e
  /\ nevents' = nevents + 1

\* pygame.QUIT: handle_input returns (False, paused) at once.
Quit ==
  /\ Handled([NoEvent EXCEPT !.type = "QUIT"])
  /\ AfterInput(FALSE, MaxSteps)
  /\ UNCHANGED <<camera, planets, paused, total, grab, hist>>

\* pygame.MOUSEBUTTONDOWN: the left button starts a drag, the wheel buttons
\* zoom, any other button does nothing.
MouseButtonDown(button, pos) ==
  /\ Handled([NoEvent EXCEPT !.type = "MOUSEBUTTONDOWN", !.button = button,
                             !.pos = pos])
  /\ IF button = 1
     THEN /\ camera' = [camera EXCEPT
                          !.dragging = TRUE,
                          !.mouse_start = FPos(pos),
                          !.offset_start = <<camera.offset_x, camera.offset_y>>]
          /\ grab' = screen_to_world(camera, FPos(pos)[1], FPos(pos)[2])
     ELSE IF button \in {4, 5}
     THEN /\ camera' = handle_zoom(camera, button, FPos(pos))
          /\ UNCHANGED grab
     ELSE UNCHANGED <<camera, grab>>
  /\ UNCHANGED <<planets, paused, running, pc, idx, steps, total, snapshot,
                 hist>>

\* pygame.MOUSEBUTTONUP: the left button ends the drag.
MouseButtonUp(button) ==
  /\ Handled([NoEvent EXCEPT !.type = "MOUSEBUTTONUP", !.button = button])
  /\ camera' = IF button = 1 THEN [camera EXCEPT !.dragging = FALSE]
                             ELSE camera
  /\ UNCHANGED <<planets, paused, running, pc, idx, steps, total, snapshot,
                 grab, hist>>

\* pygame.MOUSEMOTION: pans while dragging, ignored otherwise.
MouseMotion(pos) ==
  /\ Handled([NoEvent EXCEPT !.type = "MOUSEMOTION", !.pos = pos])
  /\ camera' = IF camera.dragging THEN handle_pan(camera, FPos(pos))
                                  ELSE camera
  /\ UNCHANGED <<planets, paused, running, pc, idx, steps, total, snapshot,
                 grab, hist>>

\* As KeyDown, but every key toggles paused.
KeyDown_any_key(key) ==
  /\ Handled([NoEvent EXCEPT !.type = "KEYDOWN", !.key = key])
  /\ paused' = ~paused
  /\ UNCHANGED <<camera, planets, running, pc, idx, steps, total, snapshot,
                 grab, hist>>

\* pygame.KEYDOWN: the space key toggles paused, other keys do nothing.
KeyDown(key) ==
  /\ Handled([NoEvent EXCEPT !.type = "KEYDOWN", !.key = key])
  /\ paused' = IF key = "K_SPACE" THEN ~paused ELSE paused
  /\ UNCHANGED <<camera, planets, running, pc, idx, steps, total, snapshot,
                 grab, hist>>

\* The event queue is exhausted: handle_input returns (True, paused).
EndInputUpTo(max) ==
  /\ pc = "input"
  /\ ev' = [NoEvent EXCEPT !.type = "FRAME"]
  /\ AfterInput(TRUE, max)
  /\ UNCHANGED <<camera, planets, paused, nevents, total, grab, hist>>

EndInput == EndInputUpTo(MaxSteps)

\* One iteration of "for planet in planets: planet.update_position(planets)".
\* After the last one the frame is drawn and the loop condition is tested.
UpdatePlanet ==
  /\ pc = "update"
  /\ \E r \in {update_position(planets, idx)} :
         /\ planets' = r.planets
         /\ total' = IF planets[idx].sun THEN total ELSE r.total
         /\ hist' = IF r.moved
                    THEN [hist EXCEPT ![idx] =
                            Append(@, <<r.planets[idx].x, r.planets[idx].y>>)]
                    ELSE hist
         /\ IF r.raised
            THEN pc' = "crashed" /\ idx' = 0
            ELSE IF idx < Len(planets)
            THEN pc' = "update" /\ idx' = idx + 1
            ELSE idx' = 0 /\ pc' = IF running THEN "input" ELSE "done"
  /\ UNCHANGED <<camera, paused, running, ev, nevents, steps, snapshot, grab>>

Next ==
  \/ Quit
  \/ \E button \in {1, 2, 4, 5}, pos \in Positions : MouseButtonDown(button, pos)
  \/ \E button \in {1, 2} : MouseButtonUp(button)
  \/ \E pos \in Positions : MouseMotion(pos)
  \/ \E key \in {"K_SPACE", "K_a"} : KeyDown(key)
  \/ EndInput
  \/ UpdatePlanet

Spec == Init /\ [][Next]_vars

----------------------------------------------------------------------------
(* A run without input events, long enough to fill the trails *)

RECURSIVE update_from(_, _)
\* "for planet in planets: planet.update_position(planets)" from body i on,
\* on the variables the loop writes (st.planets, st.total, st.hist).
update_from(st, i) ==
  IF i > Len(st.planets) THEN st
  ELSE Bind(update_position(st.planets, i), LAMBDA r :
         Bind([st EXCEPT
                 !.planets = r.planets,
                 !.total = IF st.planets[i].sun THEN @ ELSE r.total,
                 !.hist = IF r.moved
                          THEN [@ EXCEPT ![i] =
                                  Append(@, <<r.planets[i].x, r.planets[i].y>>)]
                          ELSE @],
              LAMBDA next : update_from(next, i + 1)))

\* One frame of main without input events while not paused.
frame(st) ==
  Bind([st EXCEPT !.snapshot = positions(st.planets)],
       LAMBDA start : update_from(start, 1))

RECURSIVE frames(_, _)
\* n frames of main without input events while not paused.
frames(st, n) ==
  IF n = 0 THEN st
  ELSE IF n = 1 THEN frame(st)
  ELSE Bind(frames(st, n \div 2), LAMBDA half : frames(half, n - n \div 2))

\* State of main after n frames without input events.
after_frames(n) ==
  frames([planets |-> create_planets, total |-> <<Zero, Zero>>,
          snapshot |-> positions(create_planets),
          hist |-> [k \in 1..Len(create_planets) |-> <<>>]], n)

\* Frames already run when the observation of a warm run starts.
WarmFrames == 999

\* main when the loop is entered, or main after WarmFrames frames without
\* input events (a state the run from the first one passes through).
InitTrail ==
  \/ Init
  \/ \E st \in {after_frames(WarmFrames)} :
        /\ camera = Camera
        /\ planets = st.planets
        /\ paused = FALSE
        /\ running = TRUE
        /\ pc = "input"
        /\ idx = 0
        /\ ev = [NoEvent EXCEPT !.type = "FRAME"]
        /\ nevents = 0
        /\ steps = WarmFrames
        /\ total = st.total
        /\ snapshot = st.snapshot
        /\ grab = <<Zero, Zero>>
        /\ hist = st.hist

EndInputTrail == EndInputUpTo(TrailSteps)

NextTrail ==
  \/ EndInputTrail
  \/ UpdatePlanet

SpecTrail == InitTrail /\ [][NextTrail]_vars

----------------------------------------------------------------------------
(* A harness around Planet.__init__ and update_position: bodies are built  *)
(* from arbitrary arguments and then integrated once.                      *)

\* x coordinates and masses the harness builds bodies from.
BuildXs == {FromInt(0), AU, Fneg(AU)}

BuildMasses == {FromInt(-5), FromInt(0), Dec(597219, 19)}

InitBody ==
  /\ camera = Camera
  /\ planets = <<>>
  /\ paused = FALSE
  /\ running = TRUE
  /\ pc = "build"
  /\ idx = 0
  /\ ev = NoEvent
  /\ nevents = 0
  /\ steps = 0
  /\ total = <<Zero, Zero>>
  /\ snapshot = <<>>
  /\ grab = <<Zero, Zero>>
  /\ hist = <<>>

\* planets.append(Planet("Body", x, 0, 4, color, mass).set_velocity(0, vy))
NewPlanet(x, mass, vy) ==
  /\ pc = "build"
  /\ Len(planets) < MaxBuilt
  /\ planets' = Append(planets,
                  set_velocity(Planet("Body", x, FromInt(0), 4,
                                      <<255, 255, 255>>, mass),
                               FromInt(0), vy))
  /\ hist' = Append(hist, <<>>)
  /\ UNCHANGED <<camera, paused, running, pc, idx, ev, nevents, steps, total,
                 snapshot, grab>>

\* The main loop is entered with the bodies built so far.
StartLoop ==
  /\ pc = "build"
  /\ Len(planets) >= 1
  /\ pc' = "input"
  /\ snapshot' = positions(planets)
  /\ UNCHANGED <<camera, planets, paused, running, idx, ev, nevents, steps,
                 total, grab, hist>>

NextBody ==
  \/ \E x \in BuildXs, mass \in BuildMasses, vy \in {FromInt(0), Dec(29783, 0)} :
        NewPlanet(x, mass, vy)
  \/ StartLoop
  \/ EndInput
  \/ UpdatePlanet

SpecBody == InitBody /\ [][NextBody]_vars

----------------------------------------------------------------------------
(* Properties *)

\* Rounding error allowed on a pixel coordinate computed from values of
\* total magnitude m by a handful of float operations: k * 2^-MantBits * m.
Tol(k, m) == Fmul(Norm(k, -MantBits), m)

\* |a - b| <= t
Within(a, b, t) == Fle(Fabs(Fsub(a, b)), t)

Half == Fdiv(FromInt(WIDTH), FromInt(2))

\* The step handles an input event of the given type.
Handles(type) == nevents' = nevents + 1 /\ ev'.type = type

RECURSIVE ForceSum(_, _, _)
\* attraction(ps[i], ps[1]) + ... + attraction(ps[i], ps[k]) without the
\* term k = i, added from left to right starting from 0.0.
ForceSum(ps, i, k) ==
  IF k = 0 THEN <<Zero, Zero>>
  ELSE IF k = i THEN ForceSum(ps, i, k - 1)
  ELSE Bind2(ForceSum(ps, i, k - 1), attraction(ps[i], ps[k]),
             LAMBDA rest, a : <<Fadd(rest[1], a.fx), Fadd(rest[2], a.fy)>>)

\* The bodies placed at the positions of the snapshot.
AtSnapshot == [k \in 1..Len(planets) |->
                 [planets[k] EXCEPT !.x = snapshot[k][1], !.y = snapshot[k][2]]]

\* C1: a wheel event at cursor position p leaves the world point under p
\* where it was: screen_to_world(p) after handle_zoom is screen_to_world(p)
\* before it, up to the rounding error of the float operations (the
\* difference, in pixels of the new scale, is within the tolerance).
C1_ZoomKeepsCursorPoint ==
  [][Handles("MOUSEBUTTONDOWN") /\ ev'.button \in {4, 5} =>
       LET p      == FPos(ev'.pos)
           before == screen_to_world(camera, p[1], p[2])
           after  == screen_to_world(camera', p[1], p[2])
       IN  /\ Within(Fmul(after[1], camera'.scale),
                     Fmul(before[1], camera'.scale),
                     Tol(16, Fadd(Fadd(Fabs(p[1]), Fabs(camera.offset_x)),
                                  Fadd(Fabs(camera'.offset_x), Half))))
           /\ Within(Fmul(after[2], camera'.scale),
                     Fmul(before[2], camera'.scale),
                     Tol(16, Fadd(Fadd(Fabs(p[2]), Fabs(camera.offset_y)),
                                  Fadd(Fabs(camera'.offset_y), Half))))]_vars

\* C2: every body marked as anchor is exactly as create_planets made it:
\* same position, same velocity, empty trail.
C2_AnchorInvariant ==
  \A i \in 1..Len(planets) :
     planets[i].sun => planets[i] = create_planets[i]

\* Two integration passes have completed and an input event was handled.
C2_Witness == steps >= 2 /\ pc = "input" /\ nevents >= 1

\* C3: no step taken while paused changes any body.
C3_PauseIdempotent == [][paused => planets' = planets]_vars

\* A frame has passed while paused and the camera was panned or zoomed.
C3_Witness == paused /\ ev.type = "FRAME" /\ camera # Camera

\* C4: a trail never holds more than TRAIL_CAP points, and the trail of a
\* body integrated n times is the last min(n, TRAIL_CAP) positions it was
\* integrated to, oldest first.
C4_TrailBound ==
  \A i \in 1..Len(planets) :
     /\ Len(planets[i].orbit) <= TRAIL_CAP
     /\ ~planets[i].sun =>
          LET n == Len(hist[i])
              m == IF n < TRAIL_CAP THEN n ELSE TRAIL_CAP
          IN  /\ Len(planets[i].orbit) = m
              /\ planets[i].orbit = SubSeq(hist[i], n - m + 1, n)

\* A body has been integrated more than TRAIL_CAP times.
C4_Witness == \E i \in 1..Len(planets) : Len(hist[i]) > TRAIL_CAP

\* C5: after a motion event at m during a drag, the world point that was
\* under the cursor at the button-down is drawn at m, up to the rounding
\* error of the float operations.
C5_DragTracksCursor ==
  [][Handles("MOUSEMOTION") /\ camera.dragging =>
       LET m == FPos(ev'.pos)
           s == world_to_screen(camera', grab[1], grab[2])
       IN  /\ Within(s[1], m[1],
                     Tol(16, Fadd(Fadd(Fabs(m[1]), Fabs(camera'.offset_x)),
                                  Half)))
           /\ Within(s[2], m[2],
                     Tol(16, Fadd(Fadd(Fabs(m[2]), Fabs(camera'.offset_y)),
                                  Half)))]_vars

\* The round trip of screen point p through the camera.
RoundTrip(p) ==
  LET w == screen_to_world(camera, FPos(p)[1], FPos(p)[2])
  IN  world_to_screen(camera, w[1], w[2])

\* C6 as stated: world_to_screen(screen_to_world(p)) is exactly p.
C6_ExactInverse == \A p \in ScreenPoints : RoundTrip(p) = FPos(p)

\* C6: world_to_screen(screen_to_world(p)) is p up to the rounding error of
\* the five float operations: each coordinate differs from that of p by at
\* most 8 * 2^-MantBits * (|p| + |offset| + WIDTH/2).
C6_InverseWithinRounding ==
  \A p \in ScreenPoints :
     /\ Within(RoundTrip(p)[1], FPos(p)[1],
               Tol(8, Fadd(Fadd(Fabs(FPos(p)[1]), Fabs(camera.offset_x)), Half)))
     /\ Within(RoundTrip(p)[2], FPos(p)[2],
               Tol(8, Fadd(Fadd(Fabs(FPos(p)[2]), Fabs(camera.offset_y)), Half)))

\* The camera was zoomed and panned and some round trip is not exact.
C6_Witness ==
  /\ camera.scale # SCALE_FACTOR
  /\ camera.offset_x # Zero
  /\ \E p \in ScreenPoints : RoundTrip(p) # FPos(p)

\* C7: no body has a mass <= 0: building one fails and yields no body.
C7_MassRejected ==
  \A i \in 1..Len(planets) : Flt(Zero, planets[i].mass)

\* C8: the total force update_position has just computed for a body is the
\* force on it from the positions all bodies had when the pass started.
C8_ForceFromSnapshot ==
  (pc = "update" /\ idx > 1 /\ ~planets[idx - 1].sun) =>
     total = ForceSum(AtSnapshot, idx - 1, Len(planets))

\* C9: paused starts False, a space key-down flips it and no other step
\* changes it; a frame starts one integration pass if not paused and none
\* if paused, and between frames every body that is not an anchor has been
\* integrated once per pass.
C9_PauseMachine ==
  /\ paused = FALSE
  /\ [](pc \in {"input", "done"} =>
          \A i \in 1..Len(planets) :
             ~planets[i].sun => Len(hist[i]) = steps)
  /\ [][/\ (Handles("KEYDOWN") /\ ev'.key = "K_SPACE") => paused' = ~paused
        /\ ~(Handles("KEYDOWN") /\ ev'.key = "K_SPACE") => paused' = paused
        /\ (pc = "input" /\ (pc' # "input" \/ ev'.type = "FRAME")) =>
              steps' = IF paused THEN steps ELSE steps + 1
        /\ (pc = "input" /\ paused) => pc' # "update"
        /\ pc # "input" => steps' = steps]_vars

\* A pass ran, a space key paused the loop, and a frame passed while paused.
C9_Witness == steps >= 1 /\ paused /\ ev.type = "FRAME"

\* C10: update_position of a body that is not an anchor sets the velocity
\* to velocity + (total force / mass) * TIMESTEP, the total force being the
\* sum of the attractions of the other bodies in list order, then the
\* position to position + new velocity * TIMESTEP, and appends the new
\* position to the trail.
C10_SemiImplicitEuler ==
  [][(pc = "update" /\ ~planets[idx].sun /\ pc' # "crashed") =>
       LET p == planets[idx]
           q == planets'[idx]
           f == ForceSum(planets, idx, Len(planets))
       IN  /\ q.x_vel = Fadd(p.x_vel, Fmul(Fdiv(f[1], p.mass), TIMESTEP))
           /\ q.y_vel = Fadd(p.y_vel, Fmul(Fdiv(f[2], p.mass), TIMESTEP))
           /\ q.x = Fadd(p.x, Fmul(q.x_vel, TIMESTEP))
           /\ q.y = Fadd(p.y, Fmul(q.y_vel, TIMESTEP))
           /\ Len(q.orbit) >= 1
           /\ q.orbit[Len(q.orbit)] = <<q.x, q.y>>
           /\ SubSeq(q.orbit, 1, Len(q.orbit) - 1) =
                 SubSeq(p.orbit, Len(p.orbit) - Len(q.orbit) + 2, Len(p.orbit))
     ]_vars

\* Mercury has been integrated in a second pass.
C10_Witness == pc = "update" /\ idx >= 3 /\ steps >= 2

====
